---- MODULE Spec2Model ----
(***************************************************************************)
(* Model of big-o-visualizer/src/components/BigOVisualization.tsx.         *)
(*                                                                         *)
(* The component's state is the four useState cells; everything that is    *)
(* rendered is a pure function of that state and is modelled by operators  *)
(* over the state variables.                                               *)
(*                                                                         *)
(* Representation.  A JavaScript number is a record                        *)
(*   [kind |-> "number", num |-> p, den |-> q]   (the value p/q, q > 0)    *)
(* or one of the non-finite values NaN, PosInfinity, NegInfinity.          *)
(* Math.log2 is computed in binary fixed point, truncated to LogFracBits   *)
(* fractional bits.  Strings are restricted to ASCII: the catalog names    *)
(* with a superscript are written "O(n^2)", "O(n^3)", "O(2^n)" and the     *)
(* multiplication sign of the growth column is written "x".                *)
(***************************************************************************)
EXTENDS Integers, Sequences, FiniteSets, TLC

VARIABLES maxN, selectedComplexity, viewMode, showComplexities

vars == <<maxN, selectedComplexity, viewMode, showComplexities>>

(***************************************************************************)
(* Bounds of the model                                                     *)
(***************************************************************************)
\* fractional bits kept by the fixed-point model of Math.log2
LogFracBits == 8
\* SpecProps draws maxN from (ClampLow - PropMargin)..(ClampHigh + PropMargin)
PropMargin == 3

(***************************************************************************)
(* Program constants                                                       *)
(***************************************************************************)
SliderMin == 5
SliderMax == 100
ClampLow == 1
ClampHigh == 100
AnalysisMaxN == 15
TableRows == 10
ExponentCap == 30
FractionDigits == 2

(***************************************************************************)
(* Numbers                                                                 *)
(***************************************************************************)
Min(a, b) == IF a < b THEN a ELSE b
Max(a, b) == IF a > b THEN a ELSE b

RECURSIVE GCD(_, _)
GCD(a, b) == IF b = 0 THEN a ELSE GCD(b, a % b)

\* the finite value p / q (p >= 0, q > 0), kept in lowest terms
Number(p, q) ==
    LET g == GCD(p, q)
    IN  [kind |-> "number", num |-> p \div g, den |-> q \div g]
FromInt(k) == Number(k, 1)
NaN == [kind |-> "NaN", num |-> 0, den |-> 1]
PosInfinity == [kind |-> "Infinity", num |-> 1, den |-> 1]
NegInfinity == [kind |-> "-Infinity", num |-> -1, den |-> 1]

isFinite(v) == v.kind = "number"

\* v > 0 (false for NaN)
GreaterThanZero(v) == v.kind # "NaN" /\ v.num > 0

\* n * v for an integer n >= 0 and a number v
Times(n, v) ==
    IF v.kind = "number" THEN Number(n * v.num, v.den)
    ELSE IF n = 0 THEN NaN ELSE v

\* a / b for finite a >= 0 and finite b > 0
Divide(a, b) == Number(a.num * b.den, b.num * a.den)

LogScale == 2 ^ LogFracBits
MantissaScale == 2 ^ 14

RECURSIVE FloorLog2(_)
FloorLog2(n) == IF n < 2 THEN 0 ELSE 1 + FloorLog2(n \div 2)

\* the first `bits` fractional bits of log2(x / MantissaScale), for
\* MantissaScale <= x < 2 * MantissaScale, by repeated squaring
RECURSIVE FracLog2(_, _)
FracLog2(x, bits) ==
    IF bits = 0 THEN 0
    ELSE LET sq == (x * x) \div MantissaScale
         IN  IF sq >= 2 * MantissaScale
             THEN 2 ^ (bits - 1) + FracLog2(sq \div 2, bits - 1)
             ELSE FracLog2(sq, bits - 1)

MathLog2(n) ==
    IF n < 0 THEN NaN
    ELSE IF n = 0 THEN NegInfinity
    ELSE LET e == FloorLog2(n)
             x == (n * MantissaScale) \div (2 ^ e)
         IN  Number(e * LogScale + FracLog2(x, LogFracBits), LogScale)

MathPow2(n) == FromInt(2 ^ n)

\* Number.prototype.toFixed(digits) of a finite v >= 0
RECURSIVE PadDigits(_, _)
PadDigits(k, width) ==
    IF width = 0 THEN "" ELSE PadDigits(k \div 10, width - 1) \o ToString(k % 10)

toFixed(v, digits) ==
    LET unit == 10 ^ digits
        h == (2 * unit * v.num + v.den) \div (2 * v.den)
    IN  ToString(h \div unit) \o "." \o PadDigits(h % unit, digits)

\* parseInt of a string of decimal digits, given as the sequence of its
\* characters
DigitValue(c) ==
    CASE c = "0" -> 0 [] c = "1" -> 1 [] c = "2" -> 2 [] c = "3" -> 3
      [] c = "4" -> 4 [] c = "5" -> 5 [] c = "6" -> 6 [] c = "7" -> 7
      [] c = "8" -> 8 [] c = "9" -> 9

RECURSIVE parseInt(_)
parseInt(s) ==
    IF Len(s) = 0 THEN 0
    ELSE 10 * parseInt(SubSeq(s, 1, Len(s) - 1)) + DigitValue(s[Len(s)])

\* the value attribute of the range input at position k: its decimal digits
RECURSIVE RangeValue(_)
RangeValue(k) ==
    IF k < 10 THEN <<ToString(k)>>
    ELSE Append(RangeValue(k \div 10), ToString(k % 10))

(***************************************************************************)
(* Complexity catalog (complexityFunctions), in the order of its keys      *)
(***************************************************************************)
CatalogNames ==
    <<"O(1)", "O(log n)", "O(n)", "O(n log n)", "O(n^2)", "O(n^3)", "O(2^n)">>

Range(s) == {s[i] : i \in 1..Len(s)}

ConstantFn(n) == FromInt(1)

LogarithmicFnShifted(n) == IF n < 1 THEN FromInt(0) ELSE MathLog2(n + 1)

LogarithmicFn(n) == IF n <= 1 THEN FromInt(0) ELSE MathLog2(n)

LinearFn(n) == FromInt(n)

LinearithmicFn(n) == IF n <= 1 THEN FromInt(0) ELSE Times(n, MathLog2(n))

QuadraticFn(n) == FromInt(n * n)

CubicFn(n) == FromInt(n * n * n)

ExponentialFnLowCap(n) ==
    IF n > ExponentCap THEN MathPow2(ExponentCap - 1) ELSE MathPow2(n)

ExponentialFn(n) ==
    IF n > ExponentCap THEN MathPow2(ExponentCap) ELSE MathPow2(n)

\* complexityFunctions[name].fn(n)
Fn(name, n) ==
    CASE name = "O(1)" -> ConstantFn(n)
      [] name = "O(log n)" -> LogarithmicFn(n)
      [] name = "O(n)" -> LinearFn(n)
      [] name = "O(n log n)" -> LinearithmicFn(n)
      [] name = "O(n^2)" -> QuadraticFn(n)
      [] name = "O(n^3)" -> CubicFn(n)
      [] name = "O(2^n)" -> ExponentialFn(n)

\* complexityFunctions[name]: the entry, named by its key, or undefined
Undefined == "undefined"

LookupInfoDefaulting(name) ==
    IF name \in Range(CatalogNames) THEN name ELSE "O(n)"

LookupInfo(name) ==
    IF name \in Range(CatalogNames) THEN name ELSE Undefined

keyMapping ==
    [name \in Range(CatalogNames) |->
        CASE name = "O(1)" -> "constant"
          [] name = "O(log n)" -> "logarithmic"
          [] name = "O(n)" -> "linear"
          [] name = "O(n log n)" -> "nlogn"
          [] name = "O(n^2)" -> "quadratic"
          [] name = "O(n^3)" -> "cubic"
          [] name = "O(2^n)" -> "exponential"]

reverseKeyMapping ==
    [key \in {keyMapping[name] : name \in DOMAIN keyMapping} |->
        CHOOSE name \in DOMAIN keyMapping : keyMapping[name] = key]

\* the keys of showComplexities, in insertion order
ShowKeys ==
    <<"constant", "logarithmic", "linear", "nlogn", "quadratic", "cubic",
      "exponential">>

ViewModes == {"growth", "comparison", "mathematical"}

(***************************************************************************)
(* Derived data                                                            *)
(***************************************************************************)
CoerceInverted(value) == IF isFinite(value) THEN FromInt(0) ELSE value

\* isFinite(value) ? value : 0
Coerce(value) == IF isFinite(value) THEN value ELSE FromInt(0)

validMaxNNoFloor == Min(maxN, ClampHigh)

validMaxN == Min(Max(maxN, ClampLow), ClampHigh)

\* the memoised chart data
data ==
    [n \in 1..validMaxN |->
        [n |-> n,
         values |-> [name \in Range(CatalogNames) |-> Coerce(Fn(name, n))]]]

RECURSIVE VisibleFrom(_)
VisibleFrom(i) ==
    IF i > Len(ShowKeys) THEN <<>>
    ELSE LET key == ShowKeys[i]
         IN  IF showComplexities[key] /\ key \in DOMAIN reverseKeyMapping
             THEN <<reverseKeyMapping[key]>> \o VisibleFrom(i + 1)
             ELSE VisibleFrom(i + 1)

getVisibleLinesUnfiltered ==
    [i \in 1..Len(ShowKeys) |-> reverseKeyMapping[ShowKeys[i]]]

getVisibleLines == VisibleFrom(1)

\* the Growth column of table row idx (counted from 1)
GrowthCellInverted(values, idx) ==
    IF idx > 1 /\ GreaterThanZero(values[idx - 1].value)
    THEN "x" \o toFixed(Divide(values[idx - 1].value, values[idx].value),
                        FractionDigits)
    ELSE "baseline"

GrowthCell(values, idx) ==
    IF idx > 1 /\ GreaterThanZero(values[idx - 1].value)
    THEN "x" \o toFixed(Divide(values[idx].value, values[idx - 1].value),
                        FractionDigits)
    ELSE "baseline"

\* the values array of renderMathematicalAnalysis
AnalysisValues(info) ==
    [n \in 1..Min(maxN, AnalysisMaxN) |-> [n |-> n, value |-> Fn(info, n)]]

\* values.slice(0, 10)
SliceRowsShort(values) == SubSeq(values, 1, Min(Len(values), TableRows - 1))

SliceRows(values) == SubSeq(values, 1, Min(Len(values), TableRows))

renderMathematicalAnalysis ==
    LET info == LookupInfo(selectedComplexity)
    IN  IF info = Undefined
        THEN [kind |-> "message", message |-> "Invalid complexity selected",
              values |-> <<>>, rows |-> <<>>]
        ELSE LET values == AnalysisValues(info)
                 shown == SliceRows(values)
             IN  [kind |-> "analysis", message |-> "",
                  values |-> values,
                  rows |-> [idx \in 1..Len(shown) |->
                               [n |-> shown[idx].n,
                                value |-> shown[idx].value,
                                growth |-> GrowthCell(values, idx)]]]

SamplesMax == <<5, 10, 20, 50, Max(100, maxN)>>

Samples == <<5, 10, 20, 50, Min(100, maxN)>>

renderComparisonOffByOne ==
    LET visibleLines == getVisibleLines
    IN  IF Len(visibleLines) <= 1
        THEN [kind |-> "message",
              message |-> "Please select at least one complexity to compare.",
              data |-> <<>>, series |-> <<>>]
        ELSE [kind |-> "chart", message |-> "",
              data |-> [i \in 1..Len(Samples) |->
                          [n |-> "n=" \o ToString(Samples[i]),
                           values |-> [name \in {c \in Range(visibleLines) :
                                                    LookupInfo(c) # Undefined}
                                          |-> Fn(LookupInfo(name), Samples[i])]]],
              series |-> visibleLines]

renderComparison ==
    LET visibleLines == getVisibleLines
    IN  IF Len(visibleLines) = 0
        THEN [kind |-> "message",
              message |-> "Please select at least one complexity to compare.",
              data |-> <<>>, series |-> <<>>]
        ELSE [kind |-> "chart", message |-> "",
              data |-> [i \in 1..Len(Samples) |->
                          [n |-> "n=" \o ToString(Samples[i]),
                           values |-> [name \in {c \in Range(visibleLines) :
                                                    LookupInfo(c) # Undefined}
                                          |-> Fn(LookupInfo(name), Samples[i])]]],
              series |-> visibleLines]

renderGrowth ==
    [kind |-> "chart", message |-> "", data |-> data,
     series |-> getVisibleLines]

\* what the component renders below the controls
View ==
    CASE viewMode = "growth" -> renderGrowth
      [] viewMode = "comparison" -> renderComparison
      [] viewMode = "mathematical" -> renderMathematicalAnalysis

(***************************************************************************)
(* State machine                                                           *)
(***************************************************************************)
Init ==
    /\ maxN = 20
    /\ selectedComplexity = "O(n^2)"
    /\ viewMode = "growth"
    /\ showComplexities =
         [key \in Range(ShowKeys) |->
             key \in {"constant", "logarithmic", "linear", "nlogn", "quadratic"}]

\* the "Analysis Mode" select
SetViewMode ==
    /\ \E mode \in ViewModes : viewMode' = mode
    /\ UNCHANGED <<maxN, selectedComplexity, showComplexities>>

\* the values the range input can report
SliderInputs == {RangeValue(k) : k \in SliderMin..SliderMax}

\* the "Input Size" range input
SetMaxN ==
    /\ \E value \in SliderInputs : maxN' = parseInt(value)
    /\ UNCHANGED <<selectedComplexity, viewMode, showComplexities>>

\* the "Analyze Function" select, rendered in the mathematical mode only
SetSelectedComplexity ==
    /\ viewMode = "mathematical"
    /\ \E i \in 1..Len(CatalogNames) : selectedComplexity' = CatalogNames[i]
    /\ UNCHANGED <<maxN, viewMode, showComplexities>>

\* a checkbox of "Select Complexities", rendered outside the mathematical mode
ToggleComplexity ==
    /\ viewMode # "mathematical"
    /\ \E i \in 1..Len(CatalogNames) :
          LET key == keyMapping[CatalogNames[i]]
              checked == IF key \in DOMAIN showComplexities
                         THEN showComplexities[key] ELSE FALSE
          IN  showComplexities' =
                 [k \in DOMAIN showComplexities \cup {key} |->
                     IF k = key THEN ~checked ELSE showComplexities[k]]
    /\ UNCHANGED <<maxN, selectedComplexity, viewMode>>

Next ==
    \/ SetViewMode
    \/ SetMaxN
    \/ SetSelectedComplexity
    \/ ToggleComplexity

Spec == Init /\ [][Next]_vars

(***************************************************************************)
(* Projections of Spec.  The growth and comparison views read maxN and     *)
(* showComplexities and never selectedComplexity; the mathematical view    *)
(* reads maxN and selectedComplexity and never showComplexities.  Each     *)
(* projection leaves out the one action that writes only the variable its  *)
(* views do not read.                                                      *)
(***************************************************************************)
NextCharts ==
    \/ SetViewMode
    \/ SetMaxN
    \/ ToggleComplexity

SpecCharts == Init /\ [][NextCharts]_vars

NextAnalysis ==
    \/ SetViewMode
    \/ SetMaxN
    \/ SetSelectedComplexity

SpecAnalysis == Init /\ [][NextAnalysis]_vars

(***************************************************************************)
(* The component rendered from an arbitrary state: maxN any integer around *)
(* the clamp's range and selectedComplexity any string, in any of the      *)
(* three modes.                                                            *)
(***************************************************************************)
UnknownComplexity == "O(n!)"

InitProps ==
    /\ maxN \in (ClampLow - PropMargin)..(ClampHigh + PropMargin)
    /\ selectedComplexity \in Range(CatalogNames) \cup {UnknownComplexity}
    /\ viewMode \in ViewModes
    /\ showComplexities =
         [key \in Range(ShowKeys) |->
             key \in {"constant", "logarithmic", "linear", "nlogn", "quadratic"}]

SpecProps == InitProps /\ [][SetViewMode]_vars

(***************************************************************************)
(* Properties                                                              *)
(***************************************************************************)
SelectNotice == "Please select at least one complexity to compare."

NoticeShown ==
    LET view == View
    IN  view.kind = "message" /\ view.message = SelectNotice

NoneVisible == \A key \in DOMAIN showComplexities : ~showComplexities[key]

\* catalog names whose internal visibility flag is true
VisibleNames ==
    {name \in Range(CatalogNames) : showComplexities[keyMapping[name]]}

\* C1 as stated: in the growth view and in the comparison view the "select
\* at least one" notice is shown whenever all seven flags are false, and is
\* not shown once some flag is true.
C1_NoticeInGrowthAndComparison ==
    viewMode \in {"growth", "comparison"} => (NoticeShown <=> NoneVisible)

\* C1 amended: the notice is shown exactly in the comparison view with all
\* seven flags false (so turning any flag back on removes it); the growth
\* view never shows it and renders a chart without lines instead.
C1_NoticeOnlyInComparison ==
    /\ NoticeShown <=> (viewMode = "comparison" /\ NoneVisible)
    /\ (viewMode = "growth" /\ NoneVisible) =>
          LET view == View
          IN  view.kind = "chart" /\ view.series = <<>>

C1_Witness == viewMode = "comparison" /\ NoneVisible /\ NoticeShown

ExpectedSamples == <<5, 10, 20, 50, IF maxN > 100 THEN 100 ELSE maxN>>

\* C2: with at least one flag true the comparison sampler produces exactly
\* 5 rows, for the samples 5, 10, 20, 50, min(100, maxN) in that order, each
\* labelled "n=<sample>" and holding a value for exactly the visible
\* functions, evaluated at the row's sample.
C2_ComparisonRows ==
    (viewMode = "comparison" /\ ~NoneVisible) =>
        LET rows == View.data
        IN  /\ View.kind = "chart"
            /\ Len(rows) = 5
            /\ \A i \in 1..5 :
                  /\ rows[i].n = "n=" \o ToString(ExpectedSamples[i])
                  /\ DOMAIN rows[i].values = VisibleNames
                  /\ \A name \in VisibleNames :
                        rows[i].values[name] = Fn(name, ExpectedSamples[i])
            /\ maxN = 20 =>
                  [i \in 1..5 |-> rows[i].n] =
                      <<"n=5", "n=10", "n=20", "n=50", "n=20">>

C2_Witness ==
    /\ viewMode = "comparison"
    /\ maxN = 20
    /\ VisibleNames = {"O(n)", "O(2^n)"}
    /\ View.data[5].n = "n=20"
    /\ View.data[4].values["O(2^n)"] = FromInt(1073741824)

ClampedMaxN == IF maxN < 1 THEN 1 ELSE IF maxN > 100 THEN 100 ELSE maxN

\* C3: for every integer maxN the series generator returns exactly
\* clamp(maxN, 1, 100) points, the i-th point has n = i, and every point
\* holds one value for each of the seven catalog entries.
C3_SeriesPoints ==
    /\ Len(data) = ClampedMaxN
    /\ \A i \in 1..ClampedMaxN :
          /\ data[i].n = i
          /\ DOMAIN data[i].values = Range(CatalogNames)
    /\ Cardinality(Range(CatalogNames)) = 7

C3_Witness == maxN < 1 /\ Len(data) = 1 /\ data[1].n = 1

\* C4: every value the series generator stores is finite and non-negative:
\* it is the function's result when that is finite and 0 otherwise.
C4_StoredValuesFinite ==
    \A i \in 1..Len(data) : \A name \in Range(CatalogNames) :
        LET stored == data[i].values[name]
            result == Fn(name, i)
        IN  /\ isFinite(stored)
            /\ stored.num >= 0
            /\ stored.den > 0
            /\ stored = IF isFinite(result) THEN result ELSE FromInt(0)

C4_Witness ==
    /\ Len(data) = 100
    /\ data[100].values["O(n^3)"] = FromInt(1000000)
    /\ GreaterThanZero(data[100].values["O(n log n)"])

InAnalysis ==
    viewMode = "mathematical" /\ selectedComplexity \in Range(CatalogNames)

\* C5 as stated: the mathematical breakdown produces a row for every n from
\* 1 to min(maxN, 15), in increasing n.
C5_RowPerComputedValue ==
    InAnalysis =>
        LET rows == View.rows
        IN  /\ Len(rows) = Min(maxN, 15)
            /\ \A i \in 1..Len(rows) : rows[i].n = i

\* C5 amended: the breakdown computes a value for every n from 1 to
\* min(maxN, 15), and the table holds a row (value and growth factor) for
\* the first 10 of them only: n from 1 to min(maxN, 10), in increasing n.
C5_TenRowsOfComputedValues ==
    InAnalysis =>
        LET view == View
            values == view.values
            rows == view.rows
        IN  /\ Len(values) = Min(maxN, 15)
            /\ \A i \in 1..Len(values) :
                  /\ values[i].n = i
                  /\ values[i].value = Fn(selectedComplexity, i)
            /\ Len(rows) = Min(maxN, 10)
            /\ \A i \in 1..Len(rows) :
                  /\ rows[i].n = i
                  /\ rows[i].value = Fn(selectedComplexity, i)
                  /\ DOMAIN rows[i] = {"n", "value", "growth"}

C5_Witness ==
    InAnalysis /\ maxN = 40 /\ Len(View.values) = 15 /\ Len(View.rows) = 10

\* the ratio a / b to two decimals, prefixed as in the Growth column
ExpectedFactor(a, b) ==
    LET p == a.num * b.den
        q == b.num * a.den
        h == (200 * p + q) \div (2 * q)
    IN  "x" \o ToString(h \div 100) \o "." \o ToString((h % 100) \div 10)
            \o ToString(h % 10)

\* C6 as stated: the first row is tagged "baseline", every later row
\* carries the growth factor fn(n) / fn(n-1), and the factor of the
\* quadratic row n = 2 is 4.
C6_EveryLaterRowHasFactor ==
    InAnalysis =>
        LET rows == View.rows
        IN  /\ rows[1].growth = "baseline"
            /\ \A i \in 2..Len(rows) :
                  /\ rows[i].growth # "baseline"
                  /\ GreaterThanZero(Fn(selectedComplexity, i - 1)) =>
                        rows[i].growth =
                            ExpectedFactor(Fn(selectedComplexity, i),
                                           Fn(selectedComplexity, i - 1))
            /\ selectedComplexity = "O(n^2)" => rows[2].growth = "x4.00"

\* C6 amended: the first row is tagged "baseline"; a later row n carries
\* the growth factor fn(n) / fn(n-1), shown to two decimals, when fn(n-1) is
\* positive, and is tagged "baseline" too when fn(n-1) is 0 (row n = 2 of
\* O(log n) and of O(n log n)); the factor of the quadratic row n = 2 is
\* 4.00.
C6_FactorWhenPreviousPositive ==
    InAnalysis =>
        LET rows == View.rows
        IN  /\ rows[1].growth = "baseline"
            /\ \A i \in 2..Len(rows) :
                  rows[i].growth =
                      IF GreaterThanZero(Fn(selectedComplexity, i - 1))
                      THEN ExpectedFactor(Fn(selectedComplexity, i),
                                          Fn(selectedComplexity, i - 1))
                      ELSE "baseline"
            /\ selectedComplexity = "O(n^2)" => rows[2].growth = "x4.00"
            /\ selectedComplexity \in {"O(log n)", "O(n log n)"} =>
                  rows[2].growth = "baseline"

C6_Witness ==
    /\ InAnalysis
    /\ selectedComplexity = "O(log n)"
    /\ View.rows[2].growth = "baseline"
    /\ View.rows[4].growth = ExpectedFactor(Fn("O(log n)", 4), Fn("O(log n)", 3))
    /\ View.rows[3].growth # "baseline"

DefaultVisible == {"O(1)", "O(log n)", "O(n)", "O(n log n)", "O(n^2)"}

\* C7: in the growth and comparison views the functions included are
\* exactly the catalog names whose visibility flag is true; in the initial
\* state these are O(1), O(log n), O(n), O(n log n) and O(n^2).
C7_IncludedAreVisible ==
    /\ viewMode \in {"growth", "comparison"} =>
          LET view == View
              series == view.series
          IN  /\ Range(series) = VisibleNames
              /\ Len(series) = Cardinality(VisibleNames)
              /\ (viewMode = "comparison" /\ view.kind = "chart") =>
                    \A i \in 1..Len(view.data) :
                        DOMAIN view.data[i].values = VisibleNames
    /\ Init => (viewMode = "growth" /\ Range(View.series) = DefaultVisible)

C7_Witness ==
    /\ viewMode = "growth"
    /\ showComplexities["exponential"]
    /\ ~showComplexities["constant"]
    /\ View.series = <<"O(log n)", "O(n)", "O(n log n)", "O(n^2)", "O(2^n)">>

\* C8: for every n in [1,100] the exponential entry returns 2^min(n,30);
\* fn(30) = 2^30 and fn(31) = fn(30).
C8_ExponentialCapped ==
    /\ \A n \in 1..Len(data) :
          /\ ExponentialFn(n) = FromInt(2 ^ (IF n < 30 THEN n ELSE 30))
          /\ data[n].values["O(2^n)"] = ExponentialFn(n)
    /\ Len(data) >= 31 =>
          /\ ExponentialFn(30) = FromInt(1073741824)
          /\ ExponentialFn(31) = ExponentialFn(30)

C8_Witness ==
    /\ Len(data) = 100
    /\ data[31].values["O(2^n)"] = FromInt(1073741824)
    /\ data[100].values["O(2^n)"] = data[30].values["O(2^n)"]

\* C9: a selected name that is not one of the seven catalog names makes the
\* mathematical view yield the "invalid selection" message, and no
\* breakdown value or row is computed for it.
C9_InvalidSelection ==
    (viewMode = "mathematical" /\ selectedComplexity \notin Range(CatalogNames)) =>
        /\ View.kind = "message"
        /\ View.message = "Invalid complexity selected"
        /\ View.values = <<>>
        /\ View.rows = <<>>

C9_Witness ==
    /\ viewMode = "mathematical"
    /\ selectedComplexity = UnknownComplexity
    /\ View.message = "Invalid complexity selected"

\* C10: at n = 1 the catalog functions return their base cases: constant 1,
\* logarithmic 0, linear 1, quadratic 1, cubic 1, exponential 2.
C10_BaseCases ==
    /\ data[1].values["O(1)"] = FromInt(1)
    /\ data[1].values["O(log n)"] = FromInt(0)
    /\ data[1].values["O(n)"] = FromInt(1)
    /\ data[1].values["O(n^2)"] = FromInt(1)
    /\ data[1].values["O(n^3)"] = FromInt(1)
    /\ data[1].values["O(2^n)"] = FromInt(2)
    /\ InAnalysis /\ maxN >= 1 =>
          View.values[1].value = data[1].values[selectedComplexity]

C10_Witness ==
    /\ InAnalysis
    /\ selectedComplexity = "O(log n)"
    /\ maxN >= 1
    /\ View.values[1].value = FromInt(0)
    /\ View.rows[1].growth = "baseline"

====
